---- MODULE Spec2Model ----
(***************************************************************************)
(* Model of the GTM scanner (src/app.py): the per-URL scan check_gtm with   *)
(* its TLS fallback, the detector and the contact extractor, and the batch *)
(* loop of main() that runs the scans on a bounded thread pool and          *)
(* consumes the results in completion order.                                *)
(*                                                                         *)
(* Strings are sequences of tokens: a URL is <<"https://", host, path>>,    *)
(* an href is <<"/", "contact">>, a status is <<"Error: ", description>>.   *)
(* startswith is a test on the first token, concatenation is \o.            *)
(***************************************************************************)
EXTENDS Integers, Sequences, FiniteSets, TLC

(* ------------------------------ bounds --------------------------------- *)
MaxUrls == 3
MaxPool == 3

(* ------------------------ program constants ---------------------------- *)
MinWorkers == 1
MaxWorkers == 10
MinTimeout == 5
MaxTimeout == 30
RequestTimeout == 15

None == <<>>
Some(x) == <<x>>

Min(a, b) == IF a < b THEN a ELSE b

RECURSIVE SeqToSet(_)
SeqToSet(s) == IF s = <<>> THEN {} ELSE {Head(s)} \cup SeqToSet(Tail(s))

(* ------------------------------ pages ---------------------------------- *)
\* gtm_patterns, by position in the list of find_gtm
gtm_patterns == <<"gtm.js", "GTM-ID", "gtm.js?id=", "dataLayer=[]", "ns.html?id=GTM-">>

\* re.search(pattern, fragment): which fragments of a page body a pattern matches
Matches(pattern, fragment) ==
    CASE fragment = "<script src='https://www.googletagmanager.com/gtm.js?id=GTM-ABC123'>"
             -> pattern \in {"gtm.js", "GTM-ID", "gtm.js?id="}
      [] fragment = "<iframe src='https://www.googletagmanager.com/ns.html?id=GTM-ABC123'>"
             -> pattern \in {"GTM-ID", "ns.html?id=GTM-"}
      [] fragment = "dataLayer = []" -> pattern = "dataLayer=[]"
      [] OTHER -> FALSE

RECURSIVE SearchFrom(_, _)
SearchFrom(i, html) ==
    IF i > Len(gtm_patterns) THEN FALSE
    ELSE IF \E k \in 1..Len(html) : Matches(gtm_patterns[i], html[k]) THEN TRUE
    ELSE SearchFrom(i + 1, html)

find_gtm(html_content) == SearchFrom(1, html_content)

\* the tokens of the visible text, each with the shape the patterns see
Email(s) == [kind |-> "email", s |-> s]
Phone(s) == [kind |-> "phone", s |-> s]
Word(s)  == [kind |-> "word",  s |-> s]

FindAll(kind, text) == {text[k].s : k \in {j \in 1..Len(text) : text[j].kind = kind}}

Lower(tok) ==
    CASE tok = "About"   -> "about"
      [] tok = "CONTACT" -> "contact"
      [] OTHER -> tok

IsCandidate(href) == \E k \in 1..Len(href) : Lower(href[k]) \in {"contact", "about"}

StartsWithSlash(href) == Len(href) > 0 /\ href[1] = "/"

\* urlparse(url).netloc, for a URL that starts with a scheme token
Netloc(url) == IF Len(url) >= 2 THEN url[2] ELSE ""

Rewrite(href, url) ==
    IF StartsWithSlash(href) THEN <<"https://", Netloc(url)>> \o href ELSE href

extract_contact_info(page, url) ==
    [emails |-> FindAll("email", page.text),
     phones |-> FindAll("phone", page.text),
     contact_links |-> {Rewrite(page.anchors[k], url) :
                           k \in {j \in 1..Len(page.anchors) : IsCandidate(page.anchors[j])}}]

EmptyInfo == [emails |-> {}, phones |-> {}, contact_links |-> {}]

GtmPage ==
    [html |-> <<"<script src='https://www.googletagmanager.com/gtm.js?id=GTM-ABC123'>", "<p>">>,
     text |-> <<Word("Email"), Email("info@example.com"), Phone("(415) 555-0100"),
                Email("info@example.com")>>,
     anchors |-> << <<"/", "About">>, <<"https://", "c.com", "/", "contact">>,
                    <<"/", "pricing">> >>,
     broken |-> FALSE]

DataLayerPage ==
    [html |-> <<"<p>", "dataLayer = []">>,
     text |-> <<Word("hello")>>,
     anchors |-> << <<"/", "contact">> >>,
     broken |-> FALSE]

PlainPage ==
    [html |-> <<"<p>">>,
     text |-> <<Email("sales@example.com"), Phone("415-555-0100")>>,
     anchors |-> << <<"/", "contact">> >>,
     broken |-> FALSE]

\* a body on which parsing raises
BrokenPage ==
    [html |-> <<"<p>">>, text |-> <<>>, anchors |-> <<>>, broken |-> TRUE]

Pages == {GtmPage, DataLayerPage, PlainPage, BrokenPage}

(* ---------------------------- exceptions ------------------------------- *)
\* the classes an exception is an instance of (requests.exceptions, builtins)
Ancestors(cls) ==
    CASE cls = "SSLError"        -> {"SSLError", "ConnectionError", "RequestException", "Exception"}
      [] cls = "ConnectionError" -> {"ConnectionError", "RequestException", "Exception"}
      [] cls = "ReadTimeout"     -> {"ReadTimeout", "Timeout", "RequestException", "Exception"}
      [] cls = "HTTPError"       -> {"HTTPError", "RequestException", "Exception"}
      [] OTHER                   -> {cls, "Exception"}

IsInstance(exc, cls) == cls \in Ancestors(exc.cls)

Exc(cls, msg) == [cls |-> cls, msg |-> msg]

\* str(e)
Str(exc) == <<exc.msg>>

\* variants of the except clauses: a fallback on any connection failure,
\* an outer handler for network failures only
SSLHandlerClass_conn == "ConnectionError"
OuterHandlerClass_requests == "RequestException"

\* the except clauses of check_gtm, in the order Python tries them
SSLHandlerClass == "SSLError"
InnerHandlerClass == "Exception"
OuterHandlerClass == "Exception"

(* ------------------------------ network -------------------------------- *)
\* what one requests.get call comes back with
Response(code, page) == [kind |-> "response", code |-> code, page |-> page]
Raises(exc) == [kind |-> "raise", exc |-> exc]

NetErrors == {Exc("ReadTimeout", "Read timed out"),
              Exc("ConnectionError", "Failed to establish a new connection")}
CertError == Exc("SSLError", "certificate verify failed")

FirstOutcomes ==
    {Response(200, p) : p \in Pages} \cup {Response(404, GtmPage)}
        \cup {Raises(e) : e \in NetErrors \cup {CertError}}

SecondOutcomes ==
    {Response(c, p) : c \in {200, 404}, p \in Pages}
        \cup {Raises(e) : e \in NetErrors \cup {CertError}}

NoSecond == Raises(Exc("ConnectionError", "Failed to establish a new connection"))

\* a site: the outcome of the verified GET and of the unverified GET
IsCertFailure(outcome) == outcome.kind = "raise" /\ outcome.exc.cls = "SSLError"

Sites ==
    {[first |-> f, second |-> NoSecond] : f \in {o \in FirstOutcomes : ~IsCertFailure(o)}}
        \cup {[first |-> Raises(CertError), second |-> s] : s \in SecondOutcomes}

(* ------------------------------ check_gtm ------------------------------ *)
HasScheme(url) == Len(url) > 0 /\ url[1] \in {"http://", "https://"}

Normalize(url) == IF HasScheme(url) THEN url ELSE <<"https://">> \o url

GetCall(url, verify, outcome) ==
    [url |-> url, timeout |-> RequestTimeout, verify |-> verify, outcome |-> outcome]

\* variant: only 5xx statuses raise
HttpErrorStatus_5xx(code) == code >= 500 /\ code < 600

\* response.raise_for_status()
HttpErrorStatus(code) == code >= 400 /\ code < 600

Raise(exc) == [kind |-> "raise", exc |-> exc, extractor |-> <<>>]
Return(rec, calls) == [kind |-> "return", value |-> rec, extractor |-> calls]

\* variant: the extractor runs whatever the detector said
ContactStep_always(gtm_present, page, url) ==
    [info |-> extract_contact_info(page, url), calls |-> <<gtm_present>>]

\* contact_info = extract_contact_info(soup, url) if gtm_present else {...};
\* calls is the detector's answer at each invocation of the extractor
ContactStep(gtm_present, page, url) ==
    IF gtm_present
    THEN [info |-> extract_contact_info(page, url), calls |-> <<gtm_present>>]
    ELSE [info |-> EmptyInfo, calls |-> <<>>]

DirectStatus(gtm_present) == IF gtm_present THEN <<"Success">> ELSE <<"No GTM found">>
FallbackStatus(gtm_present) == <<"Success (SSL verification disabled)">>

\* parse, detect, extract and build the record from a response
Scan(response, url, status) ==
    IF response.page.broken
    THEN Raise(Exc("ParserRejectedMarkup", "could not parse the markup"))
    ELSE LET gtm_present == find_gtm(response.page.html)
             step == ContactStep(gtm_present, response.page, url)
         IN  Return([url |-> url,
                     gtm_found |-> gtm_present,
                     emails |-> step.info.emails,
                     phones |-> step.info.phones,
                     contact_links |-> step.info.contact_links,
                     status |-> status,
                     http_status |-> Some(response.code)],
                    step.calls)

\* the body of the outer try, after the GET has come back
DirectBody(url, outcome) ==
    IF outcome.kind = "raise" THEN Raise(outcome.exc)
    ELSE IF HttpErrorStatus(outcome.code)
         THEN Raise(Exc("HTTPError", "Client Error"))
         ELSE Scan(outcome, url, DirectStatus(find_gtm(outcome.page.html)))

\* the body of the inner try, after the unverified GET has come back
FallbackBody(url, outcome) ==
    IF outcome.kind = "raise" THEN Raise(outcome.exc)
    ELSE Scan(outcome, url, FallbackStatus(find_gtm(outcome.page.html)))

\* variant: the status is the bare error description
ErrorResult_noprefix(url, prefix, exc) ==
    [url |-> url, gtm_found |-> FALSE, emails |-> {}, phones |-> {},
     contact_links |-> {}, status |-> Str(exc), http_status |-> None]

ErrorResult(url, prefix, exc) ==
    [url |-> url, gtm_found |-> FALSE, emails |-> {}, phones |-> {},
     contact_links |-> {}, status |-> <<prefix>> \o Str(exc), http_status |-> None]

(* ------------------------------- state --------------------------------- *)
VARIABLES
    urls_to_scan,   \* the input URLs, in submission order
    max_workers,    \* the "Concurrent connections" slider
    timeout,        \* the "Timeout (seconds)" slider
    site,           \* per task, what the network answers
    task,           \* per task, the future and the check_gtm call behind it
    mainpc,         \* where main() is
    submitted,      \* number of executor.submit calls made
    yielded,        \* the futures as_completed has handed out, in order
    completed,      \* the counter of the loop
    progress,       \* the progress reports issued, in order
    results,        \* the result list
    slept           \* number of time.sleep(1) calls made

vars == <<urls_to_scan, max_workers, timeout, site, task, mainpc, submitted,
          yielded, completed, progress, results, slept>>

total_urls == Len(urls_to_scan)
Tasks == 1..total_urls

NewTask == [pc |-> "unsubmitted", url |-> <<>>, ret |-> <<>>, exc |-> <<>>,
            gets |-> <<>>, extractor |-> <<>>]

\* "HTTP://a.com" is the tokens <<"HTTP:", "//", "a.com">>: it has a scheme, in
\* upper case, and does not start with "http://"
RawUrls == {<<"a.com">>, <<"http://", "a.com", "/page">>, <<"https://", "b.com">>,
            <<"HTTP:", "//", "a.com">>}

WorkerChoices == MinWorkers..Min(MaxWorkers, MaxPool)

InitMain ==
    /\ task = [t \in Tasks |-> NewTask]
    /\ mainpc = "submit"
    /\ submitted = 0
    /\ yielded = <<>>
    /\ completed = 0
    /\ progress = <<>>
    /\ results = <<>>
    /\ slept = 0

\* a batch: a few inputs, each a URL with the site behind it
BatchInputs ==
    {[url |-> <<"a.com">>, site |-> [first |-> Response(200, GtmPage), second |-> NoSecond]],
     [url |-> <<"https://", "b.com">>,
      site |-> [first |-> Raises(CertError), second |-> Response(200, PlainPage)]],
     [url |-> <<"http://", "a.com", "/page">>,
      site |-> [first |-> Raises(Exc("ReadTimeout", "Read timed out")), second |-> NoSecond]]}

Init ==
    /\ \E n \in 1..MaxUrls : \E in \in [1..n -> BatchInputs] :
          /\ urls_to_scan = [k \in 1..n |-> in[k].url]
          /\ site = [k \in 1..n |-> in[k].site]
    /\ max_workers \in WorkerChoices
    /\ timeout = RequestTimeout
    /\ InitMain

\* a single URL, any site behind it, any setting of the sliders
InitScan ==
    /\ \E u \in RawUrls : urls_to_scan = <<u>>
    /\ \E s \in Sites : site = <<s>>
    /\ max_workers \in WorkerChoices
    /\ timeout \in MinTimeout..MaxTimeout
    /\ InitMain

(* ------------------------------ workers -------------------------------- *)
Running == {t \in Tasks : task[t].pc \in {"running", "retry"}}
Queued == {t \in Tasks : task[t].pc = "queued"}

\* variant: the pool keeps one thread back
CanStart_strict(running) == running + 1 < max_workers

\* variant: one work item too many is let in
CanStart_offbyone(running) == running <= max_workers

\* a pool thread is free to take a work item
CanStart(running) == running < max_workers

\* executor.submit(check_gtm, url) for the next URL of the comprehension
Submit ==
    /\ mainpc = "submit"
    /\ submitted < total_urls
    /\ task' = [task EXCEPT ![submitted + 1].pc = "queued",
                            ![submitted + 1].url = urls_to_scan[submitted + 1]]
    /\ submitted' = submitted + 1
    /\ mainpc' = IF submitted + 1 = total_urls THEN "wait" ELSE "submit"
    /\ UNCHANGED <<urls_to_scan, max_workers, timeout, site, yielded, completed,
                   progress, results, slept>>

\* a pool thread takes the oldest work item of the queue and enters check_gtm
Start(t) ==
    /\ task[t].pc = "queued"
    /\ \A q \in Queued : t <= q
    /\ CanStart(Cardinality(Running))
    /\ task' = [task EXCEPT ![t].pc = "running", ![t].url = Normalize(task[t].url)]
    /\ UNCHANGED <<urls_to_scan, max_workers, timeout, site, mainpc, submitted,
                   yielded, completed, progress, results, slept>>

Finished(tk, body) ==
    [tk EXCEPT !.pc = "finished", !.ret = <<body.value>>, !.extractor = @ \o body.extractor]

\* the verified GET and everything up to the return or the fallback
FirstGet(t) ==
    /\ task[t].pc = "running"
    /\ LET url == task[t].url
           outcome == site[t].first
           body == DirectBody(url, outcome)
           tk == [task[t] EXCEPT !.gets = Append(@, GetCall(url, TRUE, outcome))]
       IN  task' = [task EXCEPT ![t] =
              IF body.kind = "return" THEN Finished(tk, body)
              ELSE IF IsInstance(body.exc, SSLHandlerClass) THEN [tk EXCEPT !.pc = "retry"]
              ELSE IF IsInstance(body.exc, OuterHandlerClass)
                   THEN [tk EXCEPT !.pc = "finished",
                                   !.ret = <<ErrorResult(url, "Error: ", body.exc)>>]
                   ELSE [tk EXCEPT !.pc = "finished", !.exc = <<body.exc>>]]
    /\ UNCHANGED <<urls_to_scan, max_workers, timeout, site, mainpc, submitted,
                   yielded, completed, progress, results, slept>>

\* the GET without verification and everything up to the return
Retry(t) ==
    /\ task[t].pc = "retry"
    /\ LET url == task[t].url
           outcome == site[t].second
           body == FallbackBody(url, outcome)
           tk == [task[t] EXCEPT !.gets = Append(@, GetCall(url, FALSE, outcome))]
       IN  task' = [task EXCEPT ![t] =
              IF body.kind = "return" THEN Finished(tk, body)
              ELSE IF IsInstance(body.exc, InnerHandlerClass)
                   THEN [tk EXCEPT !.pc = "finished",
                                   !.ret = <<ErrorResult(url, "SSL Error: ", body.exc)>>]
                   ELSE [tk EXCEPT !.pc = "finished", !.exc = <<body.exc>>]]
    /\ UNCHANGED <<urls_to_scan, max_workers, timeout, site, mainpc, submitted,
                   yielded, completed, progress, results, slept>>

(* ------------------------------ consumer ------------------------------- *)
\* the futures as_completed can hand out next
Ready == {t \in Tasks : task[t].pc = "finished" /\ t \notin SeqToSet(yielded)}

\* variant: the report is issued with the count before the increment
Report_stale(done, total) == [completed |-> done - 1, total |-> total]

Report(done, total) == [completed |-> done, total |-> total]

\* variant: the list is replaced, as when a write to it is lost
Accumulate_overwrite(list, result) == <<result>>

\* variant: a record equal to one already held is dropped
Accumulate_dedup(list, result) ==
    IF result \in SeqToSet(list) THEN list ELSE Append(list, result)

Accumulate(list, result) == Append(list, result)

\* as_completed yields a future; the counter and the progress report
Take(t) ==
    /\ mainpc = "wait"
    /\ t \in Ready
    /\ yielded' = Append(yielded, t)
    /\ completed' = completed + 1
    /\ progress' = Append(progress, Report(completed + 1, total_urls))
    /\ mainpc' = "append"
    /\ UNCHANGED <<urls_to_scan, max_workers, timeout, site, task, submitted,
                   results, slept>>

\* result = future.result(); results.append(result)
AppendResult ==
    /\ mainpc = "append"
    /\ LET f == task[yielded[Len(yielded)]]
       IN  IF f.exc # <<>>
           THEN /\ mainpc' = "crashed"
                /\ results' = results
           ELSE /\ mainpc' = "sleep"
                /\ results' = Accumulate(results, f.ret[1])
    /\ UNCHANGED <<urls_to_scan, max_workers, timeout, site, task, submitted,
                   yielded, completed, progress, slept>>

\* variant: the loop goes on without the delay
Sleep_skip ==
    /\ mainpc = "sleep"
    /\ mainpc' = "wait"
    /\ UNCHANGED <<urls_to_scan, max_workers, timeout, site, task, submitted,
                   yielded, completed, progress, results, slept>>

\* time.sleep(1)
Sleep ==
    /\ mainpc = "sleep"
    /\ slept' = slept + 1
    /\ mainpc' = "wait"
    /\ UNCHANGED <<urls_to_scan, max_workers, timeout, site, task, submitted,
                   yielded, completed, progress, results>>

\* as_completed is exhausted; the executor shuts down and main goes on
Finish ==
    /\ mainpc = "wait"
    /\ Len(yielded) = total_urls
    /\ mainpc' = "done"
    /\ UNCHANGED <<urls_to_scan, max_workers, timeout, site, task, submitted,
                   yielded, completed, progress, results, slept>>

Next ==
    \/ Submit
    \/ \E t \in Tasks : Start(t)
    \/ \E t \in Tasks : FirstGet(t)
    \/ \E t \in Tasks : Retry(t)
    \/ \E t \in Tasks : Take(t)
    \/ AppendResult
    \/ Sleep
    \/ Finish

Spec == Init /\ [][Next]_vars
SpecScan == InitScan /\ [][Next]_vars

\* every fetch returns, pool threads and the main thread are scheduled fairly
Fairness ==
    /\ WF_vars(Submit)
    /\ \A t \in 1..MaxUrls : WF_vars(t \in Tasks /\ Start(t))
    /\ \A t \in 1..MaxUrls : WF_vars(t \in Tasks /\ FirstGet(t))
    /\ \A t \in 1..MaxUrls : WF_vars(t \in Tasks /\ Retry(t))
    /\ WF_vars(\E t \in Tasks : Take(t))
    /\ WF_vars(AppendResult)
    /\ WF_vars(Sleep)
    /\ WF_vars(Finish)

SpecLive == Init /\ [][Next]_vars /\ Fairness

(* ------------------------------ properties ----------------------------- *)
IsErrorStatus(status) == Len(status) > 0 /\ status[1] \in {"Error: ", "SSL Error: "}
NoContacts(r) == r.emails = {} /\ r.phones = {} /\ r.contact_links = {}
Done(t) == task[t].pc = "finished"
LastGet(t) == task[t].gets[Len(task[t].gets)]

\* C1: when a batch run finishes, the result list holds exactly one record per
\* submitted task: every future was handed out once, and the k-th record is
\* the value returned by the k-th future handed out.
C1_OneResultPerTask ==
    mainpc = "done" =>
        /\ Len(results) = total_urls
        /\ Len(yielded) = total_urls
        /\ \A t \in Tasks : Cardinality({k \in 1..Len(yielded) : yielded[k] = t}) = 1
        /\ \A k \in 1..Len(results) : results[k] = task[yielded[k]].ret[1]

C1_Witness ==
    /\ mainpc = "done"
    /\ total_urls = 3
    /\ urls_to_scan[1] = urls_to_scan[2]
    /\ \E k \in 1..Len(results) : IsErrorStatus(results[k].status)
    /\ \E k \in 1..Len(results) : results[k].gtm_found

\* C2: a check_gtm call that has ended has returned exactly one record and let
\* no exception out, whatever the GETs came back with and whether or not
\* parsing failed; a call that has not ended has returned nothing.
C2_NeverRaises ==
    \A t \in Tasks :
        /\ task[t].exc = <<>>
        /\ Len(task[t].ret) = (IF Done(t) THEN 1 ELSE 0)

C2_Witness ==
    \E t \in Tasks :
        /\ Done(t)
        /\ site[t].first = Response(200, BrokenPage)
        /\ Len(task[t].ret) = 1

\* C3: the number of check_gtm calls that have started and not returned never
\* exceeds max_workers, and a queued task starts only in a step taken while
\* fewer than max_workers calls are running.
C3_BoundedConcurrency ==
    /\ [](Cardinality(Running) <= max_workers)
    /\ [][\A t \in Tasks :
            (task[t].pc = "queued" /\ task'[t].pc = "running")
                => Cardinality(Running) < max_workers]_vars

C3_Witness ==
    /\ max_workers = 2
    /\ Cardinality(Running) = 2
    /\ Queued # {}

\* C4: the k-th progress report carries the count k and the total N, and a
\* finished run over N URLs has issued exactly N reports.
C4_ProgressReports ==
    /\ \A k \in 1..Len(progress) : progress[k] = [completed |-> k, total |-> total_urls]
    /\ mainpc = "done" => Len(progress) = total_urls

C4_Witness ==
    /\ mainpc = "done"
    /\ total_urls = 3
    /\ Len(progress) = 3

\* C5: every invocation of the extractor follows a detector answer of true, on
\* both fetch paths, and every returned record with gtm_found = false has
\* empty emails, phones and contact_links.
C5_NoExtractionWithoutGtm ==
    \A t \in Tasks :
        /\ \A k \in 1..Len(task[t].extractor) : task[t].extractor[k]
        /\ \A k \in 1..Len(task[t].ret) :
              ~task[t].ret[k].gtm_found => NoContacts(task[t].ret[k])

C5_Witness ==
    \E t \in Tasks :
        /\ Done(t)
        /\ Len(task[t].gets) = 2
        /\ site[t].second = Response(200, PlainPage)
        /\ ~task[t].ret[1].gtm_found
        /\ task[t].extractor = <<>>

\* the last GET of a call ended in a failure: an exception, or a response
\* with an HTTP error status
FetchFailed(t) ==
    /\ Done(t)
    /\ \/ LastGet(t).outcome.kind = "raise"
       \/ LastGet(t).outcome.kind = "response" /\ HttpErrorStatus(LastGet(t).outcome.code)

IsErrorRecord(r) ==
    /\ ~r.gtm_found
    /\ NoContacts(r)
    /\ r.http_status = None
    /\ IsErrorStatus(r.status)

\* C6: a call whose fetch ended in a failure (timeout, connection failure,
\* HTTP error status, failed unverified retry) returns a record with
\* gtm_found = false, empty contact fields, http_status = None and a status
\* that starts with "Error:" or "SSL Error:".
C6_FailureRecord ==
    \A t \in Tasks : FetchFailed(t) => IsErrorRecord(task[t].ret[1])

\* C7: every GET, verified or not, is issued with the timeout of the run's
\* configuration.
C7_ConfiguredTimeout ==
    \A t \in Tasks : \A k \in 1..Len(task[t].gets) : task[t].gets[k].timeout = timeout

\* C8: a record built after a response with an HTTP error status, on either
\* fetch path, has no success status, gtm_found = false and empty contact fields.
C8_HttpErrorOnEveryPath ==
    \A t \in Tasks :
        (/\ Done(t)
         /\ LastGet(t).outcome.kind = "response"
         /\ HttpErrorStatus(LastGet(t).outcome.code))
        => /\ task[t].ret[1].status \notin {<<"Success">>, <<"No GTM found">>,
                                             <<"Success (SSL verification disabled)">>}
           /\ ~task[t].ret[1].gtm_found
           /\ NoContacts(task[t].ret[1])

\* C9: a call issues at most two GETs; the first is verified; a second one
\* follows only a first GET that failed with a TLS error, is unverified and
\* ends the call; a call whose first GET ended otherwise ends with one GET.
C9_AtMostOneRetry ==
    \A t \in Tasks :
        LET gets == task[t].gets IN
        /\ Len(gets) <= 2
        /\ Len(gets) >= 1 => gets[1].verify
        /\ Len(gets) = 2 => /\ IsCertFailure(gets[1].outcome)
                            /\ ~gets[2].verify
                            /\ Done(t)
        /\ (Done(t) /\ ~IsCertFailure(gets[1].outcome)) => Len(gets) = 1

C9_Witness ==
    \E t \in Tasks :
        /\ Done(t)
        /\ Len(task[t].gets) = 2
        /\ IsCertFailure(task[t].gets[2].outcome)

\* C10: every contact/about href that begins with "/" on a page with GTM
\* appears in contact_links as the source URL's scheme and host followed by
\* the href.
C10_RelativeLinks ==
    \A t \in Tasks :
        (Done(t) /\ task[t].ret[1].gtm_found) =>
            LET page == LastGet(t).outcome.page
                url == task[t].url
            IN  \A k \in 1..Len(page.anchors) :
                    (IsCandidate(page.anchors[k]) /\ StartsWithSlash(page.anchors[k]))
                        => (<<url[1], Netloc(url)>> \o page.anchors[k])
                               \in task[t].ret[1].contact_links

\* the input carries a scheme of its own (schemes are case-insensitive)
InputHasScheme(raw) == Len(raw) > 0 /\ raw[1] \in {"http://", "https://", "HTTP:"}

ExpectedUrl(raw) == IF InputHasScheme(raw) THEN raw ELSE <<"https://">> \o raw

\* C11: the URL of every GET and the url of the returned record are the input
\* with "https://" put in front when it has no scheme, and the input unchanged
\* when it has one, for successful and failed scans alike.
C11_NormalizedUrl ==
    \A t \in Tasks :
        /\ \A k \in 1..Len(task[t].gets) : task[t].gets[k].url = ExpectedUrl(urls_to_scan[t])
        /\ \A k \in 1..Len(task[t].ret) : task[t].ret[k].url = ExpectedUrl(urls_to_scan[t])

\* the last GET of a call was answered with a 2xx/3xx status
FetchSucceeded(t) ==
    /\ Done(t)
    /\ LastGet(t).outcome.kind = "response"
    /\ LastGet(t).outcome.code < 400

\* C12: after a successful fetch of a page that parses, on either path,
\* gtm_found is the detector's answer, the status is "Success" or "Success (SSL
\* verification disabled)" when it is true and "No GTM found" when it is false.
C12_StatusFollowsDetector ==
    \A t \in Tasks :
        (FetchSucceeded(t) /\ ~LastGet(t).outcome.page.broken) =>
            LET detected == find_gtm(LastGet(t).outcome.page.html)
                r == task[t].ret[1]
            IN  /\ r.gtm_found = detected
                /\ detected => r.status \in {<<"Success">>,
                                             <<"Success (SSL verification disabled)">>}
                /\ ~detected => r.status = <<"No GTM found">>

NumFinished == Cardinality({t \in Tasks : Done(t)})
LastReport == progress[Len(progress)]

\* C13 (as stated): the counter equals the number of futures taken, never
\* exceeds the number of finished tasks, and the count of a progress report
\* just issued equals the number of records in the result list.
C13_ReportEqualsResults ==
    /\ completed = Len(yielded)
    /\ completed <= NumFinished
    /\ mainpc = "append" => LastReport.completed = Len(results)

\* C13 (amended): the counter equals the number of futures taken and never
\* exceeds the number of finished tasks; a progress report just issued carries
\* one more than the number of records in the result list, and once the
\* record is appended the counter equals the length of the list.
C13_ReportLeadsResults ==
    /\ completed = Len(yielded)
    /\ completed <= NumFinished
    /\ mainpc = "append" => LastReport.completed = Len(results) + 1
    /\ mainpc \in {"sleep", "wait", "done"} => completed = Len(results)

C13_Witness ==
    /\ mainpc = "append"
    /\ Len(results) = 1
    /\ LastReport.completed = 2
    /\ NumFinished = 3

\* C14 (as stated): a call whose fetch was answered with an HTTP error status
\* returns a record whose http_status is that status code.
C14_HttpStatusCaptured ==
    \A t \in Tasks :
        (/\ Done(t)
         /\ LastGet(t).outcome.kind = "response"
         /\ LastGet(t).outcome.code >= 400)
        => task[t].ret[1].http_status = Some(LastGet(t).outcome.code)

\* C14 (amended): a call whose verified GET was answered with an HTTP error
\* status returns a record whose http_status is None and whose status starts
\* with "Error:".
C14_HttpErrorHasNoStatus ==
    \A t \in Tasks :
        (/\ Done(t)
         /\ task[t].gets[1].outcome.kind = "response"
         /\ task[t].gets[1].outcome.code >= 400)
        => /\ task[t].ret[1].http_status = None
           /\ task[t].ret[1].status[1] = "Error: "

C14_Witness ==
    \E t \in Tasks :
        /\ Done(t)
        /\ site[t].first = Response(404, GtmPage)
        /\ task[t].ret[1].http_status = None

\* C15: a call whose fetch succeeded and whose page fails to parse returns a
\* record without an error status, with the fetched http_status and with no
\* matches.
C15_ParseFailureDegrades ==
    \A t \in Tasks :
        (FetchSucceeded(t) /\ LastGet(t).outcome.page.broken) =>
            /\ ~IsErrorStatus(task[t].ret[1].status)
            /\ task[t].ret[1].http_status = Some(LastGet(t).outcome.code)
            /\ NoContacts(task[t].ret[1])

\* C16: the consumer has slept once for every completion it has finished
\* handling, a finished run over N URLs has slept N times, a delay is a step
\* of the consumer alone, and while the consumer is delaying every worker step
\* stays enabled.
C16_OneDelayPerCompletion ==
    /\ [](slept = (IF mainpc \in {"append", "sleep"} THEN completed - 1 ELSE completed))
    /\ [](mainpc = "done" => slept = total_urls)
    /\ [][slept' # slept => (slept' = slept + 1 /\ mainpc = "sleep" /\ task' = task)]_vars
    /\ [](mainpc = "sleep" =>
            \A t \in Tasks :
                /\ task[t].pc = "running" => ENABLED FirstGet(t)
                /\ task[t].pc = "retry" => ENABLED Retry(t)
                /\ (/\ task[t].pc = "queued"
                    /\ \A q \in Queued : t <= q
                    /\ Cardinality(Running) < max_workers) => ENABLED Start(t))

C16_Witness ==
    /\ mainpc = "sleep"
    /\ slept = 1
    /\ Running # {}

\* C17: a step that changes a task (a submit or a worker step) leaves the
\* counter and the result list alone; the counter changes only by one, in the
\* consumer's take; the list changes only by one record added at its end, in
\* the consumer's append.
C17_SingleWriter ==
    [][/\ task' # task => (completed' = completed /\ results' = results)
       /\ completed' # completed => (completed' = completed + 1 /\ mainpc = "wait")
       /\ results' # results =>
             /\ mainpc = "append"
             /\ Len(results') = Len(results) + 1
             /\ SubSeq(results', 1, Len(results)) = results]_vars

C17_Witness ==
    /\ mainpc = "append"
    /\ Len(results) = 1
    /\ Running # {}

\* C18: with every fetch returning and fair scheduling, a batch run eventually
\* finishes with all N results in the list.
C18_Terminates == <>(mainpc = "done" /\ Len(results) = total_urls)

C18_Witness ==
    /\ mainpc = "done"
    /\ total_urls = 3
    /\ max_workers = 1
    /\ Len(results) = 3

\* C19: in every returned record http_status is None exactly when the status
\* starts with "Error:" or "SSL Error:", and a record with gtm_found = true
\* carries the status code of the response it was built from.
C19_StatusIffNoHttpStatus ==
    \A t \in Tasks : \A k \in 1..Len(task[t].ret) :
        LET r == task[t].ret[k] IN
        /\ (r.http_status = None) <=> IsErrorStatus(r.status)
        /\ r.gtm_found => r.http_status = Some(LastGet(t).outcome.code)

C19_Witness ==
    \E t \in Tasks :
        /\ Done(t)
        /\ Len(task[t].gets) = 2
        /\ task[t].ret[1].gtm_found
        /\ task[t].ret[1].http_status = Some(200)
====
